---- MODULE Spec2Model ----
(***************************************************************************)
(* The infeed path of tensorflow/contrib/tpu/python/tpu/tpu_estimator.py:  *)
(* the host thread driving the TpuInfeedSessionHook callbacks, the input   *)
(* thread of InfeedThreadController, the signal queue between them, and    *)
(* the device's infeed queue that the enqueue executions fill and the      *)
(* training loop drains.                                                   *)
(***************************************************************************)
EXTENDS Naturals, Sequences, FiniteSets

\* ----------------------------------------------------------------- bounds
\* Largest number of before_run (load_next_batch) calls of one behaviour.
MaxLoads == 3
\* Largest value of run_config.tpu_config.iterations_per_loop.
MaxIterations == 2
\* Number of batches the device's infeed queue holds before an enqueue blocks.
InfeedCapacity == 2

\* Largest number of sessions the monitored session creates after the first.
MaxRestarts == 1

\* -------------------------------------------------------------- constants
\* class _SIGNAL
NEXT_BATCH == 1
STOP == 2

VARIABLES
  hpc,           \* host thread: which hook callback it is in or has finished
  tpu_system,    \* "uninitialized", "initialized" (init op ran), "shutdown"
  iterations,    \* TpuInfeedSessionHook._iterations, the thread's argument
  signal_queue,  \* InfeedThreadController._signal_queue
  fpc,           \* input thread: position in _input_thread_fn_for_loading
  signal,        \* the thread's local `signal` (0 before the first get)
  i,             \* position of the iterator of `for i in range(iterations)`:
                 \* the number of loop bodies entered for the current signal
  count,         \* the thread's local `count`
  dequeues_left, \* dequeues the running training step still has to do
  loads,         \* history: number of before_run calls
  sent,          \* history: every signal put on the queue, in order
  received,      \* history: every signal the thread's get returned, in order
  enq_started,   \* history: session.run(enqueue_ops) calls entered
  enq_done,      \* history: session.run(enqueue_ops) calls returned
  deq_done,      \* history: batches the device dequeued
  at_stop,       \* history: the thread's position and enq_done when join put STOP
  old_threads,   \* input threads of the controllers that after_create_session
                 \* replaced: for each its position and the signals left in
                 \* its own queue
  estimator,     \* a call of TpuEstimator.__init__: its arguments and progress
  feed,          \* a call of _create_infeed_enqueue_ops_and_dequeue_fn and of
                 \* the dequeue_fn it returns
  train,         \* a call of _train_on_tpu_shards: the building of train_step
                 \* and the run of the loop on every shard
  placement      \* a call of enqueue_fn's placement_function and _tpu_job

infeed_vars == <<hpc, tpu_system, iterations, signal_queue, fpc, signal, i, count,
          dequeues_left, loads, sent, received, enq_started, enq_done,
          deq_done, at_stop>>

\* What the callbacks and the thread of the current controller leave alone.
\* The calls that build the graph, apart from the infeed path.
build_vars == <<estimator, feed, train, placement>>

other_vars == <<old_threads, build_vars>>

vars == <<infeed_vars, other_vars>>

thread_vars == <<fpc, signal, i, count, received, enq_started>>

\* ---------------------------------------------------------------- helpers
\* A put that adds at the head, as a LIFO queue would hand it out.
PutFront(q, s) == <<s>> \o q

\* Queue.Queue.put at the tail of the unbounded FIFO.
Put(q, s) == Append(q, s)

\* Number of occurrences of x in the sequence s.
Occurrences(s, x) == Cardinality({j \in 1..Len(s) : s[j] = x})

\* Batches held by the device's infeed queue.
Infeed == enq_done - deq_done

\* The input thread has terminated: by `return` on STOP, or by an exception.
ThreadDead == fpc \in {"exited", "crashed"}

\* The thread of the controller that self._infeed_thd_controller held, as it
\* is left behind when the attribute is assigned a new controller: nothing
\* refers to its queue any more.  A thread inside its for loop is "run".
Replaced ==
  [pc |-> IF fpc \in {"loop", "run"} THEN "run" ELSE fpc,
   pending |-> Len(signal_queue)]

\* ------------------------------------------------------------------- Init
Init ==
  /\ hpc = "begun"
  /\ tpu_system = "uninitialized"
  /\ iterations \in 1..MaxIterations
  /\ signal_queue = <<>>
  /\ fpc = "none"
  /\ signal = 0
  /\ i = 0
  /\ count = 0
  /\ dequeues_left = 0
  /\ loads = 0
  /\ sent = <<>>
  /\ received = <<>>
  /\ enq_started = 0
  /\ enq_done = 0
  /\ deq_done = 0
  /\ at_stop = [pc |-> "none", done |-> 0]
  /\ old_threads = <<>>
  /\ estimator = [pc |-> "idle"]
  /\ feed = [pc |-> "idle"]
  /\ train = [pc |-> "idle"]
  /\ placement = [pc |-> "idle"]

\* ------------------------------------------------------------ host thread
\* after_create_session, first half: session.run(self._init_op).
RunInitOp ==
  /\ hpc = "begun"
  /\ hpc' = "initialized"
  /\ tpu_system' = "initialized"
  /\ UNCHANGED other_vars
  /\ UNCHANGED <<iterations, signal_queue, dequeues_left, loads, sent,
                 enq_done, deq_done, at_stop>>
  /\ UNCHANGED thread_vars

\* The controller made, and its thread started, without the init op having run.
StartControllerBeforeInit ==
  /\ hpc = "begun"
  /\ hpc' = "running"
  /\ signal_queue' = <<>>
  /\ fpc' = "get"
  /\ count' = 0
  /\ signal' = 0
  /\ i' = 0
  /\ sent' = <<>>
  /\ received' = <<>>
  /\ old_threads' = IF fpc = "none" THEN old_threads
                    ELSE Append(old_threads, Replaced)
  /\ UNCHANGED build_vars
  /\ UNCHANGED <<tpu_system, iterations, dequeues_left, loads, enq_started,
                 enq_done, deq_done, at_stop>>

\* after_create_session, second half: InfeedThreadController.__init__ makes
\* the queue and starts the daemon thread, which goes to its first get().
StartController ==
  /\ hpc = "initialized"
  /\ hpc' = "running"
  /\ signal_queue' = <<>>
  /\ fpc' = "get"
  /\ count' = 0
  /\ signal' = 0
  /\ i' = 0
  /\ sent' = <<>>
  /\ received' = <<>>
  /\ old_threads' = IF fpc = "none" THEN old_threads
                    ELSE Append(old_threads, Replaced)
  /\ UNCHANGED build_vars
  /\ UNCHANGED <<tpu_system, iterations, dequeues_left, loads, enq_started,
                 enq_done, deq_done, at_stop>>

\* load_next_batch on a queue bounded to one signal: the put waits for room.
LoadNextBatchBounded ==
  /\ hpc \in {"running", "shutdown"}
  /\ loads < MaxLoads
  /\ Len(signal_queue) < 1
  /\ signal_queue' = Put(signal_queue, NEXT_BATCH)
  /\ sent' = Append(sent, NEXT_BATCH)
  /\ loads' = loads + 1
  /\ UNCHANGED other_vars
  /\ UNCHANGED <<hpc, tpu_system, iterations, dequeues_left, enq_done,
                 deq_done, at_stop>>
  /\ UNCHANGED thread_vars

\* load_next_batch putting the signal twice.
LoadNextBatchTwice ==
  /\ hpc \in {"running", "shutdown"}
  /\ loads < MaxLoads
  /\ signal_queue' = Put(Put(signal_queue, NEXT_BATCH), NEXT_BATCH)
  /\ sent' = Append(Append(sent, NEXT_BATCH), NEXT_BATCH)
  /\ loads' = loads + 1
  /\ UNCHANGED other_vars
  /\ UNCHANGED <<hpc, tpu_system, iterations, dequeues_left, enq_done,
                 deq_done, at_stop>>
  /\ UNCHANGED thread_vars

\* before_run: load_next_batch puts NEXT_BATCH and returns.  The controller
\* accepts the call for as long as it exists, also after end().
LoadNextBatch ==
  /\ hpc \in {"running", "shutdown"}
  /\ loads < MaxLoads
  /\ signal_queue' = Put(signal_queue, NEXT_BATCH)
  /\ sent' = Append(sent, NEXT_BATCH)
  /\ loads' = loads + 1
  /\ UNCHANGED other_vars
  /\ UNCHANGED <<hpc, tpu_system, iterations, dequeues_left, enq_done,
                 deq_done, at_stop>>
  /\ UNCHANGED thread_vars

\* end, first half: join puts STOP ...
JoinPutStop ==
  /\ hpc = "running"
  /\ hpc' = "joining"
  /\ signal_queue' = Put(signal_queue, STOP)
  /\ sent' = Append(sent, STOP)
  /\ at_stop' = [pc |-> fpc, done |-> enq_done]
  /\ UNCHANGED other_vars
  /\ UNCHANGED <<tpu_system, iterations, dequeues_left, loads, enq_done,
                 deq_done>>
  /\ UNCHANGED thread_vars

\* A thread join that gives up waiting: it returns with the thread alive.
ThreadJoinNoWait ==
  /\ hpc = "joining"
  /\ hpc' = "joined"
  /\ UNCHANGED other_vars
  /\ UNCHANGED <<tpu_system, iterations, signal_queue, dequeues_left, loads,
                 sent, enq_done, deq_done, at_stop>>
  /\ UNCHANGED thread_vars

\* A join that waits for the thread to have taken STOP and returned.
ThreadJoinOnStopConsumed ==
  /\ hpc = "joining"
  /\ fpc = "exited"
  /\ hpc' = "joined"
  /\ UNCHANGED other_vars
  /\ UNCHANGED <<tpu_system, iterations, signal_queue, dequeues_left, loads,
                 sent, enq_done, deq_done, at_stop>>
  /\ UNCHANGED thread_vars

\* ... and self._input_thd.join() returns once the thread is no longer alive.
ThreadJoin ==
  /\ hpc = "joining"
  /\ ThreadDead
  /\ hpc' = "joined"
  /\ UNCHANGED other_vars
  /\ UNCHANGED <<tpu_system, iterations, signal_queue, dequeues_left, loads,
                 sent, enq_done, deq_done, at_stop>>
  /\ UNCHANGED thread_vars

\* The finalize op run while the thread join is still pending.
RunFinalizeOpBeforeJoin ==
  /\ hpc = "joining"
  /\ hpc' = "shutdown"
  /\ tpu_system' = "shutdown"
  /\ UNCHANGED other_vars
  /\ UNCHANGED <<iterations, signal_queue, dequeues_left, loads, sent,
                 enq_done, deq_done, at_stop>>
  /\ UNCHANGED thread_vars

\* end, second half: session.run(self._finalize_op).
RunFinalizeOp ==
  /\ hpc = "joined"
  /\ hpc' = "shutdown"
  /\ tpu_system' = "shutdown"
  /\ UNCHANGED other_vars
  /\ UNCHANGED <<iterations, signal_queue, dequeues_left, loads, sent,
                 enq_done, deq_done, at_stop>>
  /\ UNCHANGED thread_vars

\* ----------------------------------------------------------- input thread
\* A get that hands out a queued STOP ahead of the signals before it.
ThreadGetStopFirst ==
  /\ fpc = "get"
  /\ signal_queue # <<>>
  /\ LET stops == {j \in 1..Len(signal_queue) : signal_queue[j] = STOP}
         k == IF stops = {} THEN 1 ELSE CHOOSE j \in stops : TRUE
     IN  /\ signal' = signal_queue[k]
         /\ signal_queue' = SubSeq(signal_queue, 1, k - 1)
                               \o SubSeq(signal_queue, k + 1, Len(signal_queue))
         /\ received' = Append(received, signal_queue[k])
         /\ fpc' = IF signal_queue[k] = STOP THEN "exited" ELSE "loop"
  /\ i' = 0
  /\ UNCHANGED other_vars
  /\ UNCHANGED <<hpc, tpu_system, iterations, count, dequeues_left, loads,
                 sent, enq_started, enq_done, deq_done, at_stop>>

\* signal = self._signal_queue.get(); if signal == STOP: return.
ThreadGet ==
  /\ fpc = "get"
  /\ signal_queue # <<>>
  /\ signal' = Head(signal_queue)
  /\ signal_queue' = Tail(signal_queue)
  /\ received' = Append(received, Head(signal_queue))
  /\ fpc' = IF Head(signal_queue) = STOP THEN "exited" ELSE "loop"
  /\ i' = 0
  /\ UNCHANGED other_vars
  /\ UNCHANGED <<hpc, tpu_system, iterations, count, dequeues_left, loads,
                 sent, enq_started, enq_done, deq_done, at_stop>>

\* The for loop takes its next index and enters session.run(enqueue_ops).
ThreadLoopBody ==
  /\ fpc = "loop"
  /\ i < iterations
  /\ i' = i + 1
  /\ fpc' = "run"
  /\ enq_started' = enq_started + 1
  /\ UNCHANGED other_vars
  /\ UNCHANGED <<hpc, tpu_system, iterations, signal_queue, signal, count,
                 dequeues_left, loads, sent, received, enq_done, deq_done,
                 at_stop>>

\* The loop left one iteration early, as for range(iterations - 1).
ThreadLoopEndEarly ==
  /\ fpc = "loop"
  /\ i = iterations - 1
  /\ count' = count + 1
  /\ i' = 0
  /\ fpc' = "get"
  /\ UNCHANGED other_vars
  /\ UNCHANGED <<hpc, tpu_system, iterations, signal_queue, signal,
                 dequeues_left, loads, sent, received, enq_started, enq_done,
                 deq_done, at_stop>>

\* The loop also left as soon as a STOP is next in the queue.
ThreadLoopEndOnStop ==
  /\ fpc = "loop"
  /\ \/ i = iterations
     \/ signal_queue # <<>> /\ Head(signal_queue) = STOP
  /\ count' = count + 1
  /\ i' = 0
  /\ fpc' = "get"
  /\ UNCHANGED other_vars
  /\ UNCHANGED <<hpc, tpu_system, iterations, signal_queue, signal,
                 dequeues_left, loads, sent, received, enq_started, enq_done,
                 deq_done, at_stop>>

\* The range is exhausted: count += 1 and back to the get().
ThreadLoopEnd ==
  /\ fpc = "loop"
  /\ i = iterations
  /\ count' = count + 1
  /\ i' = 0
  /\ fpc' = "get"
  /\ UNCHANGED other_vars
  /\ UNCHANGED <<hpc, tpu_system, iterations, signal_queue, signal,
                 dequeues_left, loads, sent, received, enq_started, enq_done,
                 deq_done, at_stop>>

\* session.run(enqueue_ops) returns: the batch is in the device's infeed
\* queue.  The call blocks for as long as that queue is full.
EnqueueReturn ==
  /\ fpc = "run"
  /\ Infeed < InfeedCapacity
  /\ enq_done' = enq_done + 1
  /\ fpc' = "loop"
  /\ UNCHANGED other_vars
  /\ UNCHANGED <<hpc, tpu_system, iterations, signal_queue, signal, i, count,
                 dequeues_left, loads, sent, received, enq_started, deq_done,
                 at_stop>>

\* session.run(enqueue_ops) raises: nothing in the loop catches it, the
\* exception leaves _input_thread_fn_for_loading and the thread is dead.
EnqueueRaise ==
  /\ fpc = "run"
  /\ fpc' = "crashed"
  /\ UNCHANGED other_vars
  /\ UNCHANGED <<hpc, tpu_system, iterations, signal_queue, signal, i, count,
                 dequeues_left, loads, sent, received, enq_started, enq_done,
                 deq_done, at_stop>>

\* ----------------------------------------------------------------- device
\* A device loop that runs one iteration more than the thread enqueues.
RunStepOneMore ==
  /\ hpc = "running"
  /\ hpc' = "step"
  /\ dequeues_left' = iterations + 1
  /\ UNCHANGED other_vars
  /\ UNCHANGED <<tpu_system, iterations, signal_queue, loads, sent, enq_done,
                 deq_done, at_stop>>
  /\ UNCHANGED thread_vars

\* The host runs one training step: training_loop.repeat runs train_step
\* iterations_per_loop times, and each train_step starts with one dequeue.
RunStep ==
  /\ hpc = "running"
  /\ hpc' = "step"
  /\ dequeues_left' = iterations
  /\ UNCHANGED other_vars
  /\ UNCHANGED <<tpu_system, iterations, signal_queue, loads, sent, enq_done,
                 deq_done, at_stop>>
  /\ UNCHANGED thread_vars

\* One train_step: dequeue_fn takes a batch from the infeed queue, and waits
\* while there is none.
Dequeue ==
  /\ hpc = "step"
  /\ dequeues_left > 0
  /\ Infeed > 0
  /\ deq_done' = deq_done + 1
  /\ dequeues_left' = dequeues_left - 1
  /\ UNCHANGED other_vars
  /\ UNCHANGED <<hpc, tpu_system, iterations, signal_queue, loads, sent,
                 enq_done, at_stop>>
  /\ UNCHANGED thread_vars

\* The step's session.run returns to the host loop.
StepDone ==
  /\ hpc = "step"
  /\ dequeues_left = 0
  /\ hpc' = "running"
  /\ UNCHANGED other_vars
  /\ UNCHANGED <<tpu_system, iterations, signal_queue, dequeues_left, loads,
                 sent, enq_done, deq_done, at_stop>>
  /\ UNCHANGED thread_vars

\* ------------------------------------------------------------------- Next
ThreadNext ==
  \/ ThreadGet
  \/ ThreadLoopBody
  \/ ThreadLoopEnd
  \/ EnqueueReturn

Next ==
  \/ RunInitOp
  \/ StartController
  \/ LoadNextBatch
  \/ JoinPutStop
  \/ ThreadJoin
  \/ RunFinalizeOp
  \/ ThreadNext
  \/ EnqueueRaise
  \/ RunStep
  \/ Dequeue
  \/ StepDone

Spec == Init /\ [][Next]_vars

\* The scheduling the code relies on: a started thread keeps running, the
\* host finishes the callback it is in, and the device carries on with the
\* step it was given.  When the host calls before_run, end or a step, and
\* whether an enqueue raises, is left open.
FairSpec ==
  /\ Spec
  /\ WF_vars(ThreadNext)
  /\ WF_vars(StartController)
  /\ WF_vars(ThreadJoin)
  /\ WF_vars(RunFinalizeOp)
  /\ WF_vars(Dequeue)
  /\ WF_vars(StepDone)

\* ---------------------------------------------------- the hook's protocol
\* The monitored session calls before_run before each step it runs, runs the
\* step to its end, and calls end between steps.
StepsAllRun == deq_done = loads * iterations

HookBeforeRun ==
  /\ hpc = "running"
  /\ StepsAllRun
  /\ LoadNextBatch

HookRunStep ==
  /\ ~StepsAllRun
  /\ RunStep

HookEnd ==
  /\ StepsAllRun
  /\ JoinPutStop

HookNext ==
  \/ RunInitOp
  \/ StartController
  \/ HookBeforeRun
  \/ HookRunStep
  \/ Dequeue
  \/ StepDone
  \/ HookEnd
  \/ ThreadJoin
  \/ RunFinalizeOp
  \/ ThreadNext
  \/ EnqueueRaise

\* As FairSpec; the step follows its before_run in the same run call.
HookSpec ==
  /\ Init
  /\ [][HookNext]_vars
  /\ WF_vars(ThreadNext)
  /\ WF_vars(StartController)
  /\ WF_vars(HookRunStep)
  /\ WF_vars(ThreadJoin)
  /\ WF_vars(RunFinalizeOp)
  /\ WF_vars(Dequeue)
  /\ WF_vars(StepDone)

\* ------------------------------------------------------- session recovery
\* A step fails with an error the monitored session recovers from: it makes
\* a new session and calls after_create_session again.
SessionLost ==
  /\ hpc = "step"
  /\ Len(old_threads) < MaxRestarts
  /\ hpc' = "begun"
  /\ dequeues_left' = 0
  /\ UNCHANGED other_vars
  /\ UNCHANGED <<tpu_system, iterations, signal_queue, loads, sent, enq_done,
                 deq_done, at_stop>>
  /\ UNCHANGED thread_vars

\* A replaced thread goes on in _input_thread_fn_for_loading with its own
\* queue, which holds NEXT_BATCH signals only: join puts STOP on the queue of
\* the newest controller.  Its enqueue executions go to the session that was
\* lost and are not counted.
OldThreadGet(j) ==
  /\ old_threads[j].pc = "get"
  /\ old_threads[j].pending > 0
  /\ old_threads' = [old_threads EXCEPT ![j] =
                       [pc |-> "run", pending |-> @.pending - 1]]
  /\ UNCHANGED <<infeed_vars, build_vars>>

OldThreadBatchDone(j) ==
  /\ old_threads[j].pc = "run"
  /\ old_threads' = [old_threads EXCEPT ![j].pc = "get"]
  /\ UNCHANGED <<infeed_vars, build_vars>>

OldThreadRaise(j) ==
  /\ old_threads[j].pc = "run"
  /\ old_threads' = [old_threads EXCEPT ![j].pc = "crashed"]
  /\ UNCHANGED <<infeed_vars, build_vars>>

OldThreadNext ==
  \E j \in 1..Len(old_threads) :
    \/ OldThreadGet(j)
    \/ OldThreadBatchDone(j)
    \/ OldThreadRaise(j)

SessionNext ==
  \/ Next
  \/ SessionLost
  \/ OldThreadNext

SessionSpec == Init /\ [][SessionNext]_vars

\* ============================================================== building
\* The functions that build the estimator and its graph are applied one call
\* at a time, each to arguments drawn when the call starts.
NoCall ==
  /\ estimator.pc = "idle"
  /\ feed.pc = "idle"
  /\ train.pc = "idle"
  /\ placement.pc = "idle"

\* ---------------------------------------------------- TpuEstimator.__init__
\* What `config` can be: a tpu_config.RunConfig, an Estimator RunConfig that
\* is not one, None, or an object that is no RunConfig at all.
Configs == {"tpu_config.RunConfig", "run_config.RunConfig", "None", "object"}

\* isinstance(config, tpu_config.RunConfig)
IsTpuRunConfig(config) == config = "tpu_config.RunConfig"

TpuEstimatorCall ==
  /\ NoCall
  /\ \E config \in Configs, use_tpu \in BOOLEAN :
       estimator' = [pc |-> "called", config |-> config, use_tpu |-> use_tpu,
                     model_function |-> "unset", error |-> "none"]
  /\ UNCHANGED <<infeed_vars, old_threads, feed, train, placement>>

\* if use_tpu: model_function = wrapped_model_fn(model_fn, config), which
\* does not look at config; else: model_function = model_fn.
TpuEstimatorWrap ==
  /\ estimator.pc = "called"
  /\ estimator' = [estimator EXCEPT
       !.pc = "wrapped",
       !.model_function = IF estimator.use_tpu THEN "wrapped_model_fn"
                          ELSE "model_fn"]
  /\ UNCHANGED <<infeed_vars, old_threads, feed, train, placement>>

\* super().__init__(...): Estimator's own constructor returns for a RunConfig
\* and for None; for any other object it returns or raises a ValueError.
TpuEstimatorSuper ==
  /\ estimator.pc = "wrapped"
  /\ \/ estimator' = [estimator EXCEPT !.pc = "super_done"]
     \/ /\ estimator.config = "object"
        /\ estimator' = [estimator EXCEPT !.pc = "raised",
                                          !.error = "ValueError"]
  /\ UNCHANGED <<infeed_vars, old_threads, feed, train, placement>>

\* The isinstance check made only for use_tpu.
TpuEstimatorCheckIfTpu ==
  /\ estimator.pc = "super_done"
  /\ estimator' =
       IF estimator.use_tpu /\ ~IsTpuRunConfig(estimator.config)
       THEN [estimator EXCEPT !.pc = "raised", !.error = "ValueError"]
       ELSE [estimator EXCEPT !.pc = "constructed"]
  /\ UNCHANGED <<infeed_vars, old_threads, feed, train, placement>>

\* if not isinstance(config, tpu_config.RunConfig): raise ValueError(...)
TpuEstimatorCheck ==
  /\ estimator.pc = "super_done"
  /\ estimator' =
       IF ~IsTpuRunConfig(estimator.config)
       THEN [estimator EXCEPT !.pc = "raised", !.error = "ValueError"]
       ELSE [estimator EXCEPT !.pc = "constructed"]
  /\ UNCHANGED <<infeed_vars, old_threads, feed, train, placement>>

TpuEstimatorNext ==
  \/ TpuEstimatorCall
  \/ TpuEstimatorWrap
  \/ TpuEstimatorSuper
  \/ TpuEstimatorCheck

\* ------------------------------- _create_infeed_enqueue_ops_and_dequeue_fn
MaxFeatures == 2

FeatureNames == {"a", "b", "c"}

Tensors == {"t1", "t2", "t3"}

EmptyDict == [name \in {} |-> "t1"]

\* The feature dictionaries with at most MaxFeatures entries.
FeatureDicts ==
  UNION {[names -> Tensors] :
           names \in {S \in SUBSET FeatureNames : Cardinality(S) <= MaxFeatures}}

\* `features` is one tensor or a dict of tensors by name.
Features ==
  {[is_dict |-> FALSE, tensor |-> t, dict |-> EmptyDict] : t \in Tensors}
    \cup {[is_dict |-> TRUE, tensor |-> "none", dict |-> d] : d \in FeatureDicts}

\* The orders in which iterating over a dict can give its keys.
KeyOrders(dict) ==
  {order \in [1..Cardinality(DOMAIN dict) -> DOMAIN dict] :
     \A j, k \in 1..Cardinality(DOMAIN dict) : order[j] = order[k] => j = k}

\* infeed_queue.generate_dequeue_op(): one dequeued tensor for each position
\* of the tuple the queue was made for.
GenerateDequeueOp(infeed_tuple) ==
  [j \in 1..Len(infeed_tuple) |-> [position |-> j, of |-> infeed_tuple[j]]]

CreateInfeedCall ==
  /\ NoCall
  /\ \E features \in Features, labels \in Tensors :
       feed' = [pc |-> "called", features |-> features, labels |-> labels,
                infeed_names |-> [none |-> TRUE, list |-> <<>>],
                infeed_tuple |-> <<>>,
                result |-> [values |-> <<>>, restored |-> FALSE,
                            dequeued_features |-> EmptyDict,
                            label |-> [position |-> 0, of |-> "none"]]]
  /\ UNCHANGED <<infeed_vars, old_threads, estimator, train, placement>>

\* The body up to the definition of dequeue_fn: infeed_names and infeed_tuple.
CreateInfeed ==
  /\ feed.pc = "called"
  /\ IF feed.features.is_dict
     THEN \E order \in KeyOrders(feed.features.dict) :
            feed' = [feed EXCEPT
              !.pc = "created",
              !.infeed_names = [none |-> FALSE, list |-> order],
              !.infeed_tuple =
                 [j \in 1..Len(order) |-> feed.features.dict[order[j]]]
                   \o <<feed.labels>>]
     ELSE feed' = [feed EXCEPT
              !.pc = "created",
              !.infeed_tuple = <<feed.features.tensor, feed.labels>>]
  /\ UNCHANGED <<infeed_vars, old_threads, estimator, train, placement>>

\* dequeue_fn with the name at index i bound to values[i + 1].
DequeueFnShifted ==
  /\ feed.pc = "created"
  /\ LET values == GenerateDequeueOp(feed.infeed_tuple)
         names == feed.infeed_names.list
     IN feed' = [feed EXCEPT
          !.pc = "dequeued",
          !.result =
             IF feed.infeed_names.none
             THEN [feed.result EXCEPT !.values = values]
             ELSE [values |-> <<>>, restored |-> TRUE,
                   dequeued_features |->
                     [name \in {names[j] : j \in 1..(Len(values) - 1)} |->
                        values[(CHOOSE j \in 1..(Len(values) - 1) :
                                  names[j] = name) + 1]],
                   label |-> values[Len(values)]]]
  /\ UNCHANGED <<infeed_vars, old_threads, estimator, train, placement>>

\* dequeue_fn()
DequeueFn ==
  /\ feed.pc = "created"
  /\ LET values == GenerateDequeueOp(feed.infeed_tuple)
         names == feed.infeed_names.list
     IN feed' = [feed EXCEPT
          !.pc = "dequeued",
          !.result =
             IF feed.infeed_names.none
             THEN [feed.result EXCEPT !.values = values]
             ELSE [values |-> <<>>, restored |-> TRUE,
                   dequeued_features |->
                     [name \in {names[j] : j \in 1..(Len(values) - 1)} |->
                        values[CHOOSE j \in 1..(Len(values) - 1) :
                                 names[j] = name]],
                   label |-> values[Len(values)]]]
  /\ UNCHANGED <<infeed_vars, old_threads, estimator, train, placement>>

CreateInfeedNext ==
  \/ CreateInfeedCall
  \/ CreateInfeed
  \/ DequeueFn

\* ------------------------------------------- _tpu_job, placement_function
MaxIndex == 17

\* The divisor of `index / 8`.
ShardsPerTask == 8

Masters == {"", "local", "grpc://10.0.0.1:8470"}

\* _tpu_job(run_config), by run_config.master.
TpuJob(master) ==
  IF master \in {"", "local"} THEN "None" ELSE "tpu_worker"

\* a / b under `from __future__ import division`: the exact quotient.
TrueDiv(a, b) == [num |-> a, den |-> b]

\* '%d' % q: the quotient cut towards zero.
FormatD(q) ==
  IF q.num >= 0 THEN q.num \div q.den ELSE 0 - ((0 - q.num) \div q.den)

\* placement_function with index % 8.
PlacementFunctionModulo(job, index) ==
  IF job = "None"
  THEN [job |-> "None", replica |-> 0, task |-> 0, device |-> "CPU:0"]
  ELSE [job |-> job, replica |-> 0, task |-> index % ShardsPerTask,
        device |-> "CPU:0"]

\* placement_function(index), the device as its fields.
PlacementFunction(job, index) ==
  IF job = "None"
  THEN [job |-> "None", replica |-> 0, task |-> 0, device |-> "CPU:0"]
  ELSE [job |-> job, replica |-> 0,
        task |-> FormatD(TrueDiv(index, ShardsPerTask)), device |-> "CPU:0"]

\* TpuInfeedSessionHook.__init__: self._tpu_job = _tpu_job(run_config)
PlacementHookInit ==
  /\ NoCall
  /\ \E master \in Masters :
       placement' = [pc |-> "hook", master |-> master,
                     hook_job |-> TpuJob(master), job |-> "unset",
                     index |-> 0,
                     device |-> [job |-> "unset", replica |-> 0, task |-> 0,
                                 device |-> "unset"],
                     init_job |-> "unset", finalize_job |-> "unset"]
  /\ UNCHANGED <<infeed_vars, old_threads, estimator, feed, train>>

\* begin calls enqueue_fn: job = _tpu_job(run_config)
PlacementEnqueueFn ==
  /\ placement.pc = "hook"
  /\ placement' = [placement EXCEPT !.pc = "enqueue_fn",
                                    !.job = TpuJob(placement.master)]
  /\ UNCHANGED <<infeed_vars, old_threads, estimator, feed, train>>

\* split_inputs_and_generate_enqueue_ops asks for the device of a shard.
PlacementPlace ==
  /\ placement.pc = "enqueue_fn"
  /\ \E index \in 0..MaxIndex :
       placement' = [placement EXCEPT
         !.pc = "placed",
         !.index = index,
         !.device = PlacementFunction(placement.job, index)]
  /\ UNCHANGED <<infeed_vars, old_threads, estimator, feed, train>>

\* the rest of begin: the init and finalize ops of self._tpu_job
PlacementBeginOps ==
  /\ placement.pc = "placed"
  /\ placement' = [placement EXCEPT !.pc = "begun",
                                    !.init_job = placement.hook_job,
                                    !.finalize_job = placement.hook_job]
  /\ UNCHANGED <<infeed_vars, old_threads, estimator, feed, train>>

PlacementNext ==
  \/ PlacementHookInit
  \/ PlacementEnqueueFn
  \/ PlacementPlace
  \/ PlacementBeginOps

\* ------------------------- _convert_model_fn_to_train_step: building
MaxShards == 2

MaxLoss == 2

\* [1e7], the initial_loss given to training_loop.repeat
InitialLoss == 10000000

\* The initial loss of the code, and another one to compare runs with.
Seeds == {InitialLoss, InitialLoss + 1}

\* The losses a model_fn computes; none of them is a seed.
Losses == 1..MaxLoss

\* _verify_estimator_spec looking at training_chief_hooks only.
VerifyEstimatorSpecChiefOnly(training_chief_hooks, training_hooks) ==
  IF training_chief_hooks THEN "training_chief_hooks" ELSE "ok"

\* _verify_estimator_spec(estimator_spec): the field it raises a ValueError
\* for, or "ok"; a hooks argument is TRUE for a non-empty list.
VerifyEstimatorSpec(training_chief_hooks, training_hooks) ==
  IF training_chief_hooks THEN "training_chief_hooks"
  ELSE IF training_hooks THEN "training_hooks"
  ELSE "ok"

\* _train_on_tpu_shards(run_config, train_step): tpu.shard calls train_shard,
\* and training_loop.repeat calls train_step to build the body of the loop.
TrainOnTpuShards ==
  /\ NoCall
  /\ \E k \in 0..MaxIterations, n \in 1..MaxShards, seed \in Seeds :
       train' = [pc |-> "train_step",
                 iterations_per_loop |-> k, num_shards |-> n,
                 initial_loss |-> seed,
                 training_chief_hooks |-> FALSE, training_hooks |-> FALSE,
                 ops |-> {}, error |-> "none", returned |-> "none",
                 identity_deps |-> {},
                 iteration |-> 0, shard |-> 1, phase |-> "none",
                 model_loss |-> [sh \in 1..n |-> 0],
                 loss |-> [sh \in 1..n |-> seed],
                 updates |-> [sh \in 1..n |-> 0],
                 reads |-> [sh \in 1..n |-> 0],
                 result |-> 0]
  /\ UNCHANGED <<infeed_vars, old_threads, estimator, feed, placement>>

\* del loss; features, labels = dequeue_fn()
TrainStepDequeue ==
  /\ train.pc = "train_step"
  /\ train' = [train EXCEPT !.pc = "dequeued", !.ops = @ \cup {"dequeue"}]
  /\ UNCHANGED <<infeed_vars, old_threads, estimator, feed, placement>>

\* _call_model_fn(features, labels): the user's model_fn builds its loss and
\* train_op and returns an EstimatorSpec, with hooks or without.
TrainStepCallModelFn ==
  /\ train.pc = "dequeued"
  /\ \E chief \in BOOLEAN, hooks \in BOOLEAN :
       train' = [train EXCEPT !.pc = "called",
                              !.ops = @ \cup {"model_fn"},
                              !.training_chief_hooks = chief,
                              !.training_hooks = hooks]
  /\ UNCHANGED <<infeed_vars, old_threads, estimator, feed, placement>>

\* estimator_spec = _verify_estimator_spec(...)
TrainStepVerify ==
  /\ train.pc = "called"
  /\ LET verdict == VerifyEstimatorSpec(train.training_chief_hooks,
                                        train.training_hooks)
     IN train' = IF verdict = "ok"
                 THEN [train EXCEPT !.pc = "verified"]
                 ELSE [train EXCEPT !.pc = "raised", !.error = "ValueError"]
  /\ UNCHANGED <<infeed_vars, old_threads, estimator, feed, placement>>

\* return array_ops.identity(loss) outside ops.control_dependencies.
TrainStepReturnNoDependency ==
  /\ train.pc = "verified"
  /\ train' = [train EXCEPT !.pc = "built",
                            !.ops = @ \cup {"identity"},
                            !.identity_deps = {},
                            !.returned = "loss"]
  /\ UNCHANGED <<infeed_vars, old_threads, estimator, feed, placement>>

\* with ops.control_dependencies([train_op]): return array_ops.identity(loss)
TrainStepReturn ==
  /\ train.pc = "verified"
  /\ train' = [train EXCEPT !.pc = "built",
                            !.ops = @ \cup {"control_dependencies", "identity"},
                            !.identity_deps = {"train_op"},
                            !.returned = "loss"]
  /\ UNCHANGED <<infeed_vars, old_threads, estimator, feed, placement>>

TrainStepNext ==
  \/ TrainOnTpuShards
  \/ TrainStepDequeue
  \/ TrainStepCallModelFn
  \/ TrainStepVerify
  \/ TrainStepReturn

\* ------------------------------------------ _train_on_tpu_shards: running
\* The shards run the loop in step: in each iteration every shard, in turn,
\* computes the loss of its batch, applies train_op and gives the loss out.

RECURSIVE ShardSum(_, _)
ShardSum(outputs, n) ==
  IF n = 0 THEN 0 ELSE outputs[n] + ShardSum(outputs, n - 1)

\* tpu.shard(..., outputs_from_all_shards=False): the outputs of the first
\* shard stand for all.
FirstShardOutput(outputs) == outputs[1]

\* train_step giving back the loss it was called with.
StepLossKeepsIncoming(incoming, model_loss) == incoming

\* The loss a train_step gives out: del loss drops the incoming one, and
\* loss is bound again to estimator_spec.loss.
StepLoss(incoming, model_loss) == model_loss

\* training_loop.repeat(iterations_per_loop, train_step, [1e7]): the loop
\* starts with the initial loss and runs its body iterations_per_loop times.
TrainLoopStart ==
  /\ train.pc = "built"
  /\ train' = IF train.iterations_per_loop = 0
              THEN [train EXCEPT !.pc = "looped"]
              ELSE [train EXCEPT !.pc = "running", !.phase = "model"]
  /\ UNCHANGED <<infeed_vars, old_threads, estimator, feed, placement>>

\* The dequeue and the model of one iteration on the shard: its loss.
TrainShardModel ==
  /\ train.pc = "running"
  /\ train.phase = "model"
  /\ \E l \in Losses :
       train' = [train EXCEPT !.phase = "loss",
                              !.model_loss[train.shard] = l]
  /\ UNCHANGED <<infeed_vars, old_threads, estimator, feed, placement>>

\* train_op of the iteration on the shard.
TrainShardTrainOp ==
  /\ train.pc = "running"
  /\ train.phase = "loss"
  /\ train' = [train EXCEPT !.phase = "updated",
                            !.updates[train.shard] = @ + 1]
  /\ UNCHANGED <<infeed_vars, old_threads, estimator, feed, placement>>

\* The identity of the loss runs once its input and the ops it has a control
\* dependency on have run; its output is carried to the next iteration, or
\* out of the loop after the last.
TrainShardIdentity ==
  /\ train.pc = "running"
  /\ \/ train.phase = "updated"
     \/ train.phase = "loss" /\ "train_op" \notin train.identity_deps
  /\ LET last_shard == train.shard = train.num_shards
         last == last_shard /\ train.iteration + 1 = train.iterations_per_loop
     IN train' = [train EXCEPT
          !.loss[train.shard] = StepLoss(@, train.model_loss[train.shard]),
          !.reads[train.shard] = @ + 1,
          !.shard = IF last_shard THEN 1 ELSE @ + 1,
          !.iteration = IF last_shard THEN @ + 1 ELSE @,
          !.phase = IF last THEN "none" ELSE "model",
          !.pc = IF last THEN "looped" ELSE "running"]
  /\ UNCHANGED <<infeed_vars, old_threads, estimator, feed, placement>>

\* (loss,) = tpu.shard(...) as the sum over the shards.
TrainOnTpuShardsReturnSum ==
  /\ train.pc = "looped"
  /\ train' = [train EXCEPT
                 !.pc = "done",
                 !.result = ShardSum(train.loss, train.num_shards)]
  /\ UNCHANGED <<infeed_vars, old_threads, estimator, feed, placement>>

\* (loss,) = tpu.shard(..., outputs_from_all_shards=False); return loss
TrainOnTpuShardsReturn ==
  /\ train.pc = "looped"
  /\ train' = [train EXCEPT !.pc = "done",
                            !.result = FirstShardOutput(train.loss)]
  /\ UNCHANGED <<infeed_vars, old_threads, estimator, feed, placement>>

TrainRunNext ==
  \/ TrainLoopStart
  \/ TrainShardModel
  \/ TrainShardTrainOp
  \/ TrainShardIdentity
  \/ TrainOnTpuShardsReturn

\* ------------------------------------------------------------- BuildSpec
BuildNext ==
  \/ TpuEstimatorNext
  \/ CreateInfeedNext
  \/ PlacementNext
  \/ TrainStepNext
  \/ TrainRunNext

BuildInit == Init /\ iterations = 1

BuildSpec == BuildInit /\ [][BuildNext]_vars

\* ================================================================= claims

\* C1: the TPU system initialisation run by after_create_session has
\* completed before the input thread exists, and so before any enqueue
\* execution is entered.
C1_InitBeforeFeeder ==
  (fpc # "none" \/ enq_started > 0) => tpu_system # "uninitialized"

C1_Witness ==
  /\ tpu_system = "initialized"
  /\ fpc = "run"
  /\ enq_started = 1

\* C2: when end issues the shutdown operation, join has returned and the
\* input thread is dead; from then on the thread does not move and no enqueue
\* execution starts or completes.
C2_JoinBeforeShutdown ==
  [][ tpu_system' = "shutdown" =>
        /\ ThreadDead
        /\ fpc' = fpc
        /\ enq_started' = enq_started
        /\ enq_done' = enq_done
        /\ (tpu_system # "shutdown" => hpc = "joined") ]_vars

C2_Witness ==
  /\ tpu_system = "shutdown"
  /\ fpc = "exited"
  /\ at_stop.pc = "run"
  /\ enq_done > at_stop.done

\* C3: the enqueue executions started are iterations * count + i with
\* 0 <= i <= iterations, i > 0 only inside the processing of a NEXT_BATCH, and
\* whenever the thread is about to read a signal (or has returned) every
\* NEXT_BATCH it received has had exactly `iterations` completed executions.
C3_IterationAccounting ==
  /\ i \in 0..iterations
  /\ enq_started = iterations * count + i
  /\ (i > 0 => signal = NEXT_BATCH /\ fpc \in {"loop", "run", "crashed"})
  /\ (fpc \in {"get", "exited"} =>
        /\ i = 0
        /\ count = Occurrences(received, NEXT_BATCH)
        /\ enq_done = iterations * count)

C3_Witness ==
  /\ iterations = 2
  /\ count = 2
  /\ fpc = "get"
  /\ enq_done = 4

\* C4: the signals put by load_next_batch and join are received in the order
\* sent, each once: what was sent is what was received followed by what is
\* still queued.
C4_SignalFifo == sent = received \o signal_queue

C4_Witness ==
  /\ Len(received) >= 2
  /\ Len(signal_queue) >= 2
  /\ signal_queue[Len(signal_queue)] = STOP
  /\ fpc \in {"loop", "run"}

\* An enqueue execution that cannot return: the device's infeed queue is full.
Stalled == fpc = "run" /\ Infeed = InfeedCapacity

\* The NEXT_BATCH signals sent before the (first) STOP of the sequence s.
BatchesBeforeStop(s) ==
  LET p == CHOOSE j \in 1..Len(s) :
             s[j] = STOP /\ \A m \in 1..(j - 1) : s[m] # STOP
  IN  Occurrences(SubSeq(s, 1, p - 1), NEXT_BATCH)

\* C5, as stated: join always returns, and when it has, the thread has
\* processed every earlier NEXT_BATCH, taken STOP and exited, and the signal
\* queue is empty.
C5_JoinAlwaysDrains ==
  /\ (hpc = "joining") ~> (hpc = "joined")
  /\ [](hpc = "joined" =>
          /\ fpc = "exited"
          /\ signal_queue = <<>>
          /\ count = Occurrences(sent, NEXT_BATCH))

\* C5, amended: unless an enqueue execution stalls for ever, join returns;
\* when it has and no enqueue raised, the thread has processed every earlier
\* NEXT_BATCH in full, taken STOP and exited, and the queue is empty; when an
\* enqueue raised, join returns too and STOP is left in the queue.
C5_JoinDrainsUnlessStalledOrRaised ==
  /\ ([]<>(~Stalled)) => ((hpc = "joining") ~> (hpc = "joined"))
  /\ [](hpc = "joined" /\ fpc # "crashed" =>
          /\ fpc = "exited"
          /\ signal_queue = <<>>
          /\ count = Occurrences(sent, NEXT_BATCH)
          /\ enq_done = iterations * count)
  /\ [](hpc = "joined" /\ fpc = "crashed" =>
          /\ signal_queue # <<>>
          /\ signal_queue[Len(signal_queue)] = STOP)

C5_Witness ==
  /\ hpc = "joined"
  /\ fpc = "exited"
  /\ count >= 2
  /\ enq_done > at_stop.done

\* C6: load_next_batch is enabled in every state of the input thread and
\* every call only appends NEXT_BATCH to the signal queue; of the hook's
\* callbacks only the thread join inside end waits for the input thread.
C6_LoadNextBatchNeverBlocks ==
  /\ [](/\ hpc \in {"running", "shutdown"} /\ loads < MaxLoads
             => ENABLED LoadNextBatch
        /\ hpc = "begun" => ENABLED RunInitOp
        /\ hpc = "initialized" => ENABLED StartController
        /\ hpc = "running" => ENABLED JoinPutStop
        /\ hpc = "joined" => ENABLED RunFinalizeOp)
  /\ [][loads' # loads =>
          /\ signal_queue' = Append(signal_queue, NEXT_BATCH)
          /\ UNCHANGED <<hpc, tpu_system, thread_vars, enq_done, deq_done,
                         dequeues_left>>]_vars

C6_Witness ==
  /\ Stalled
  /\ hpc = "running"
  /\ loads >= 2
  /\ signal_queue # <<>>

\* C7: the thread returns on STOP only with every NEXT_BATCH sent before the
\* STOP enqueued in full: no batch is cut short and none is skipped.
C7_StopNeverPreempts ==
  fpc = "exited" =>
    /\ i = 0
    /\ count = BatchesBeforeStop(sent)
    /\ enq_started = iterations * count
    /\ enq_done = enq_started

C7_Witness ==
  /\ fpc = "exited"
  /\ at_stop.pc = "run"
  /\ enq_done > at_stop.done + iterations

\* C8: if an enqueue execution stays stalled for ever, STOP is never
\* consumed, join never returns and the shutdown operation is never issued.
C8_StalledEnqueueDeadlocksTeardown ==
  (<>[]Stalled) =>
    [](/\ Occurrences(received, STOP) = 0
       /\ hpc \notin {"joined", "shutdown"}
       /\ tpu_system # "shutdown")

C8_Witness ==
  /\ Stalled
  /\ hpc = "joining"
  /\ Occurrences(signal_queue, STOP) = 1

\* C9, as stated: a join called after an enqueue raised stays waiting.
C9_JoinHangsAfterRaise ==
  [][at_stop.pc = "crashed" /\ hpc = "joining" => hpc' = "joining"]_vars

\* C9, amended: once an enqueue has raised the thread is dead; a join then
\* does not wait (its thread join can return at once), and the STOP it sent
\* stays in the queue, never consumed.
C9_JoinReturnsAfterRaise ==
  fpc = "crashed" =>
    /\ hpc = "joining" => ENABLED ThreadJoin
    /\ at_stop.pc # "none" =>
         /\ Occurrences(received, STOP) = 0
         /\ Occurrences(signal_queue, STOP) = 1

C9_Witness ==
  /\ at_stop.pc = "crashed"
  /\ fpc = "crashed"
  /\ hpc = "shutdown"

\* C10, as the class documents it: the controller pre-infeeds one batch, so
\* an idle input thread with nothing queued has infed one batch more than
\* there were before_run calls.
C10_PreInfeedsOneBatch ==
  (fpc = "get" /\ signal_queue = <<>>) => count = loads + 1

C16_OneBatchAhead ==
  /\ Occurrences(signal_queue, NEXT_BATCH) <= 1
  /\ deq_done <= enq_done
  /\ enq_done <= deq_done + iterations

C16_Witness ==
  /\ hpc = "running"
  /\ iterations = 2
  /\ loads = 2
  /\ deq_done = 2
  /\ enq_done = 4

\* C17: no input thread of a controller that after_create_session has
\* replaced is alive, neither when the new thread is started nor after end.
C17_OneFeederThread ==
  \A j \in 1..Len(old_threads) : old_threads[j].pc \notin {"get", "run"}

\* C14: a TpuEstimator made with a config that is not a tpu_config.RunConfig
\* ends in a ValueError, with use_tpu and without; the constructor never
\* returns an estimator for it, and it does not stop short of either end.
C14_WrongConfigRaises ==
  /\ estimator.pc = "constructed" => IsTpuRunConfig(estimator.config)
  /\ estimator.pc = "raised" =>
       /\ estimator.error = "ValueError"
       /\ ~IsTpuRunConfig(estimator.config)
  /\ estimator.pc \in {"called", "wrapped", "super_done"} =>
       ENABLED TpuEstimatorNext

C14_Witness ==
  /\ estimator.pc = "raised"
  /\ estimator.config = "run_config.RunConfig"
  /\ ~estimator.use_tpu
  /\ estimator.model_function = "model_fn"

\* C13: what dequeue_fn returns has the structure of the batch that was
\* enqueued.  For a dict of features, the name at place i of the order fixed
\* when the infeed was created is bound to position i of the dequeued tuple,
\* which carries the tensor enqueued under that name, and the label is the
\* last position; for a single tensor, the dequeued values are returned as
\* they are: the features, then the label, and no names.
C13_DequeueRestoresBatch ==
  feed.pc = "dequeued" =>
    LET names == feed.infeed_names.list
        result == feed.result
    IN IF feed.features.is_dict
       THEN /\ result.restored
            /\ DOMAIN result.dequeued_features = DOMAIN feed.features.dict
            /\ Len(names) = Cardinality(DOMAIN feed.features.dict)
            /\ \A j \in 1..Len(names) :
                 /\ result.dequeued_features[names[j]].position = j
                 /\ result.dequeued_features[names[j]].of =
                      feed.features.dict[names[j]]
            /\ result.label = [position |-> Len(names) + 1,
                               of |-> feed.labels]
       ELSE /\ ~result.restored
            /\ result.values = <<[position |-> 1, of |-> feed.features.tensor],
                                 [position |-> 2, of |-> feed.labels]>>

C13_Witness ==
  /\ feed.pc = "dequeued"
  /\ feed.features.is_dict
  /\ feed.infeed_names.list = <<"c", "a">>
  /\ feed.features.dict["c"] # feed.features.dict["a"]
  /\ feed.result.dequeued_features["a"].position = 2

\* C20: with a job, the device of shard index is task floor(index / 8) of
\* job tpu_worker; without one it is the local device, task 0 and no job.
\* There is no job exactly when master is '' or 'local', and the init and
\* shutdown ops are made for the same job as the placement.
C20_PlacementByTask ==
  /\ placement.pc \in {"placed", "begun"} =>
       /\ placement.job = "None" <=> placement.master \in {"", "local"}
       /\ placement.job # "None" =>
            /\ placement.device.job = "tpu_worker"
            /\ ShardsPerTask * placement.device.task <= placement.index
            /\ placement.index < ShardsPerTask * (placement.device.task + 1)
       /\ placement.job = "None" =>
            /\ placement.device.job = "None"
            /\ placement.device.task = 0
       /\ placement.device.replica = 0
       /\ placement.device.device = "CPU:0"
       /\ placement.hook_job = placement.job
  /\ placement.pc = "begun" =>
       /\ placement.init_job = placement.job
       /\ placement.finalize_job = placement.job

C20_Witness ==
  /\ placement.pc = "begun"
  /\ placement.master \notin {"", "local"}
  /\ placement.index = 2 * ShardsPerTask + 1
  /\ placement.device.task = 2

\* C11: when the EstimatorSpec of the model_fn has training_chief_hooks or
\* training_hooks, train_step ends in an error with neither the control
\* dependency on train_op nor the identity of the loss built and nothing
\* returned; when it has neither, train_step builds both and returns the
\* loss.  The verification always gives one of the two.
C11_HooksRejected ==
  /\ train.pc = "called" => ENABLED TrainStepVerify
  /\ train.pc \notin {"idle", "train_step", "dequeued", "called"} =>
       IF train.training_chief_hooks \/ train.training_hooks
       THEN /\ train.pc = "raised"
            /\ train.error = "ValueError"
            /\ train.ops \cap {"control_dependencies", "identity"} = {}
            /\ train.returned = "none"
       ELSE /\ train.pc # "raised"
            /\ train.error = "none"
            /\ train.pc = "verified" => ENABLED TrainStepReturn
            /\ train.pc # "verified" =>
                 /\ {"control_dependencies", "identity"} \subseteq train.ops
                 /\ train.returned = "loss"

C11_Witness ==
  /\ train.pc = "raised"
  /\ ~train.training_chief_hooks
  /\ train.training_hooks
  /\ train.ops = {"dequeue", "model_fn"}

\* The loop of _train_on_tpu_shards is running or has run.
TrainStarted == train.pc \in {"running", "looped", "done"}

\* C18: in every iteration on every shard train_op is applied before the
\* loss of that iteration is given out: the identity has the control
\* dependency on train_op, no shard has given out more losses than it has
\* applied updates, and when the loop ends each shard has done both
\* iterations_per_loop times.
C18_UpdateBeforeLoss ==
  /\ train.pc \in {"built", "running", "looped", "done"} =>
       "train_op" \in train.identity_deps
  /\ TrainStarted =>
       \A sh \in 1..train.num_shards :
         /\ train.reads[sh] <= train.updates[sh]
         /\ train.pc \in {"looped", "done"} =>
              /\ train.reads[sh] = train.iterations_per_loop
              /\ train.updates[sh] = train.iterations_per_loop

C18_Witness ==
  /\ train.pc = "looped"
  /\ train.iterations_per_loop = 2
  /\ train.num_shards = 2
  /\ train.reads[2] = 2

\* C19: the initial loss never reaches the result.  A shard that has done an
\* iteration carries the loss of its model and no seed, so with
\* iterations_per_loop >= 1 the result is a loss of the model whatever the
\* initial loss was; only with iterations_per_loop = 0 is the initial loss
\* what the loop carries out and what is returned.
C19_SeedDiscarded ==
  TrainStarted =>
    /\ \A sh \in 1..train.num_shards :
         IF train.reads[sh] >= 1
         THEN train.loss[sh] \notin Seeds /\ train.loss[sh] \in Losses
         ELSE train.loss[sh] = train.initial_loss
    /\ train.pc = "done" =>
         IF train.iterations_per_loop >= 1
         THEN train.result \notin Seeds /\ train.result \in Losses
         ELSE train.result = train.initial_loss

C19_Witness ==
  /\ train.pc = "done"
  /\ train.iterations_per_loop = 1
  /\ train.initial_loss # InitialLoss
  /\ train.result = 1

\* C12: with iterations_per_loop >= 1, what _train_on_tpu_shards returns is
\* the loss the first shard computed in its last iteration, whatever the
\* other shards computed; with more than one shard it is not their sum.
C12_FirstShardLoss ==
  train.pc = "done" /\ train.iterations_per_loop >= 1 =>
    /\ train.result = train.model_loss[1]
    /\ train.num_shards >= 2 =>
         train.result # ShardSum(train.model_loss, train.num_shards)

C12_Witness ==
  /\ train.pc = "done"
  /\ train.iterations_per_loop = 2
  /\ train.num_shards = 2
  /\ train.model_loss[1] = 1
  /\ train.model_loss[2] = 2
  /\ train.result = 1

====
